---- MODULE Spec2Model ----
(***************************************************************************)
(* Model of the three demonstrations of the repository:                    *)
(*   wrappedlist.py     a list whose indices wrap around modulo its length *)
(*   squarefunction.py  functions invoked with square brackets             *)
(*   easysubsuper.py    classes compared by their place in the MRO         *)
(* Each demonstration has its own specification (SpecWL, SpecSF, SpecESS). *)
(* A call is modelled as one step from pc = "idle" to pc = "done" that     *)
(* records the call's arguments and its outcome (a value or the exception  *)
(* raised); Return is the caller dropping that outcome.                    *)
(***************************************************************************)
EXTENDS Integers, Sequences, FiniteSets, TLC

VARIABLES
    pc,       \* "idle": no call in progress; "done": a call has just ended
    items,    \* the elements of the WrappedList
    before,   \* the elements of the WrappedList when the last call began
    op,       \* the last call on the WrappedList: its name, key and value
    res,      \* the outcome of the last call on the WrappedList
    sfcall,   \* the last bracket or parenthesis invocation of a SquareFunction
    sfres,    \* its outcome: the exception raised and the calls of the wrapped function
    cmp,      \* the last class comparison: operator, left and right class
    cmpres    \* its result

vars == <<pc, items, before, op, res, sfcall, sfres, cmp, cmpres>>

(***************************************************************************)
(* Bounds of the model.                                                    *)
(***************************************************************************)
MaxLen == 3        \* longest WrappedList
MaxWraps == 2      \* integer keys reach MaxWraps lengths past either end
MaxArgs == 3       \* longest subscripted argument tuple

Vals == {0, 1, 2}  \* the elements stored in lists

RECURSIVE SeqsUpTo(_, _)
SeqsUpTo(S, n) ==
    IF n = 0 THEN {<<>>}
    ELSE LET shorter == SeqsUpTo(S, n - 1)
         IN  shorter \cup {Append(s, x) : s \in {t \in shorter : Len(t) = n - 1}, x \in S}

Lists == SeqsUpTo(Vals, MaxLen)

(***************************************************************************)
(* Python values that appear as keys.  A bound is an int, None or a str;   *)
(* a key is an int, a slice, or an object of another type: a str and None  *)
(* (no start/stop/step attributes) and a range (which has them).           *)
(***************************************************************************)
IntB(n) == [t |-> "int", v |-> n]
NoneB == [t |-> "None", v |-> 0]
StrB == [t |-> "str", v |-> 0]

IntKey(n) == [t |-> "int", v |-> n, start |-> NoneB, stop |-> NoneB, step |-> NoneB]
SliceKey(a, b, s) == [t |-> "slice", v |-> 0, start |-> a, stop |-> b, step |-> s]
RangeKey(a, b) == [t |-> "range", v |-> 0, start |-> IntB(a), stop |-> IntB(b), step |-> IntB(1)]
StrKey == [t |-> "str", v |-> 0, start |-> NoneB, stop |-> NoneB, step |-> NoneB]
NoneKey == [t |-> "None", v |-> 0, start |-> NoneB, stop |-> NoneB, step |-> NoneB]

\* isinstance(key, int), isinstance(key, slice), hasattr(key, "start")
IsInt(key) == key.t = "int"
IsSlice(key) == key.t = "slice"
HasSliceAttrs(key) == key.t \in {"slice", "range"}

\* Values assigned: a single element, or an iterable of elements.
ItemV(x) == [t |-> "item", v |-> x, seq |-> <<>>]
SeqV(s) == [t |-> "seq", v |-> 0, seq |-> s]
NoV == [t |-> "none", v |-> 0, seq |-> <<>>]

\* Outcome of a call: the exception raised ("none" when it returns), the
\* list after the call, and the value returned (an element or a list).
Returns(l, kind, item, lst) ==
    [err |-> "none", items |-> l, kind |-> kind, item |-> item, list |-> lst]
Raises(e, l) ==
    [err |-> e, items |-> l, kind |-> "none", item |-> 0, list |-> <<>>]

(***************************************************************************)
(* The built-in list (CPython), to which WrappedList delegates.            *)
(***************************************************************************)
\* list.__getitem__(i), list.__setitem__(i, x), list.__delitem__(i)
list_getitem(l, i) ==
    LET j == IF i < 0 THEN i + Len(l) ELSE i
    IN  IF j < 0 \/ j >= Len(l) THEN Raises("IndexError", l)
        ELSE Returns(l, "item", l[j + 1], <<>>)

list_setitem(l, i, x) ==
    LET j == IF i < 0 THEN i + Len(l) ELSE i
    IN  IF j < 0 \/ j >= Len(l) THEN Raises("IndexError", l)
        ELSE Returns([l EXCEPT ![j + 1] = x], "none", 0, <<>>)

list_delitem(l, i) ==
    LET j == IF i < 0 THEN i + Len(l) ELSE i
    IN  IF j < 0 \/ j >= Len(l) THEN Raises("IndexError", l)
        ELSE Returns(SubSeq(l, 1, j) \o SubSeq(l, j + 2, Len(l)), "none", 0, <<>>)

\* PySlice_AdjustIndices: clamp one bound of a slice into the list.
AdjustIndex(i, n, step) ==
    IF i < 0
    THEN (IF i + n < 0 THEN (IF step < 0 THEN -1 ELSE 0) ELSE i + n)
    ELSE (IF i >= n THEN (IF step < 0 THEN n - 1 ELSE n) ELSE i)

SliceLength(start, stop, step) ==
    IF step < 0
    THEN (IF stop < start THEN ((start - stop - 1) \div (-step)) + 1 ELSE 0)
    ELSE (IF start < stop THEN ((stop - start - 1) \div step) + 1 ELSE 0)

\* The positions (0-based) a slice with integer bounds selects, in order.
SlicePositions(n, s) ==
    LET step == IF s.step.t = "None" THEN 1 ELSE s.step.v
        start == AdjustIndex(s.start, n, step)
        stop == AdjustIndex(s.stop, n, step)
    IN  [i \in 1..SliceLength(start, stop, step) |-> start + (i - 1) * step]

\* A slice handed to the built-in list: integer bounds, step None or an int.
StepIsZero(s) == s.step.t = "int" /\ s.step.v = 0
StepIsOne(s) == s.step.t = "None" \/ s.step.v = 1

RECURSIVE Remove(_, _, _)
Remove(l, drop, i) ==
    IF i > Len(l) THEN <<>>
    ELSE (IF (i - 1) \in drop THEN <<>> ELSE <<l[i]>>) \o Remove(l, drop, i + 1)

Range(f) == {f[i] : i \in DOMAIN f}

list_getslice(l, s) ==
    IF StepIsZero(s) THEN Raises("ValueError", l)
    ELSE LET pos == SlicePositions(Len(l), s)
         IN  Returns(l, "list", 0, [i \in DOMAIN pos |-> l[pos[i] + 1]])

list_setslice(l, s, value) ==
    IF StepIsZero(s) THEN Raises("ValueError", l)
    ELSE IF value.t # "seq" THEN Raises("TypeError", l)
    ELSE LET pos == SlicePositions(Len(l), s)
             start == AdjustIndex(s.start, Len(l), 1)
             stop == AdjustIndex(s.stop, Len(l), 1)
             end == IF stop < start THEN start ELSE stop
         IN  IF StepIsOne(s)
             THEN Returns(SubSeq(l, 1, start) \o value.seq \o SubSeq(l, end + 1, Len(l)),
                          "none", 0, <<>>)
             ELSE IF Len(value.seq) # Len(pos) THEN Raises("ValueError", l)
             ELSE Returns([j \in 1..Len(l) |->
                              IF (j - 1) \in Range(pos)
                              THEN value.seq[CHOOSE i \in DOMAIN pos : pos[i] = j - 1]
                              ELSE l[j]],
                          "none", 0, <<>>)

list_delslice(l, s) ==
    IF StepIsZero(s) THEN Raises("ValueError", l)
    ELSE Returns(Remove(l, Range(SlicePositions(Len(l), s)), 1), "none", 0, <<>>)

(***************************************************************************)
(* WrappedList (wrappedlist.py).                                           *)
(***************************************************************************)
\* WrappedList.__init__(*items, iterable=None); given says whether the
\* iterable argument was passed.
WrappedList_init(itemsArg, given, iterable) ==
    IF itemsArg # <<>> /\ given THEN Raises("ValueError", <<>>)
    ELSE IF itemsArg = <<>> /\ given THEN Returns(iterable, "list", 0, iterable)
    ELSE IF itemsArg # <<>> /\ ~given THEN Returns(itemsArg, "list", 0, itemsArg)
    ELSE Returns(<<>>, "list", 0, <<>>)

\* Variants of _wrap_int with a slip: one subtraction in place of the
\* modulus; a guard that lets a zero length through; None let through.
_wrap_int_once(key, length) ==
    IF key.t # "int" THEN [err |-> "TypeError", v |-> 0]
    ELSE IF length = 0 THEN [err |-> "ZeroDivisionError", v |-> 0]
    ELSE [err |-> "none",
          v |-> IF key.v >= length THEN key.v - length
                ELSE IF key.v < -length THEN key.v + length ELSE key.v]

_wrap_int_nozero(key, length) ==
    IF key.t # "int" THEN [err |-> "TypeError", v |-> 0]
    ELSE IF length = 0 THEN [err |-> "none", v |-> key.v]
    ELSE [err |-> "none", v |-> (key.v % length) - (IF key.v < 0 THEN length ELSE 0)]

_wrap_int_nonone(key, length) ==
    IF key.t = "str" THEN [err |-> "TypeError", v |-> 0]
    ELSE IF key.t = "None" THEN [err |-> "none", v |-> IF key.v < 0 THEN -length ELSE 0]
    ELSE IF length = 0 THEN [err |-> "ZeroDivisionError", v |-> 0]
    ELSE [err |-> "none", v |-> (key.v % length) - (IF key.v < 0 THEN length ELSE 0)]

\* key % length - (0, length)[key < 0]; None % int and str % int raise
\* TypeError, int % 0 raises ZeroDivisionError.
_wrap_int(key, length) ==
    IF key.t # "int" THEN [err |-> "TypeError", v |-> 0]
    ELSE IF length = 0 THEN [err |-> "ZeroDivisionError", v |-> 0]
    ELSE [err |-> "none", v |-> (key.v % length) - (IF key.v < 0 THEN length ELSE 0)]

\* Variant of _wrap_slice with the two bounds exchanged.
_wrap_slice_swapped(key, length) ==
    IF ~HasSliceAttrs(key)
    THEN [err |-> "AttributeError", start |-> 0, stop |-> 0, step |-> NoneB]
    ELSE LET a == _wrap_int(key.stop, length)
             b == _wrap_int(key.start, length)
         IN  IF a.err # "none" THEN [err |-> a.err, start |-> 0, stop |-> 0, step |-> NoneB]
             ELSE IF b.err # "none"
             THEN [err |-> b.err, start |-> 0, stop |-> 0, step |-> NoneB]
             ELSE [err |-> "none", start |-> a.v, stop |-> b.v, step |-> key.step]

\* slice(_wrap_int(key.start), _wrap_int(key.stop), key.step); key.start
\* raises AttributeError on an object without the attribute.
_wrap_slice(key, length) ==
    IF ~HasSliceAttrs(key)
    THEN [err |-> "AttributeError", start |-> 0, stop |-> 0, step |-> NoneB]
    ELSE LET a == _wrap_int(key.start, length)
             b == _wrap_int(key.stop, length)
         IN  IF a.err # "none" THEN [err |-> a.err, start |-> 0, stop |-> 0, step |-> NoneB]
             ELSE IF b.err # "none"
             THEN [err |-> b.err, start |-> 0, stop |-> 0, step |-> NoneB]
             ELSE [err |-> "none", start |-> a.v, stop |-> b.v, step |-> key.step]

\* The result is an int (kind "int", in v) or a slice (kind "slice").
_wrap_both(key, length) ==
    IF IsInt(key)
    THEN LET w == _wrap_int(IntB(key.v), length)
         IN  [err |-> w.err, kind |-> "int", v |-> w.v, start |-> 0, stop |-> 0, step |-> NoneB]
    ELSE LET s == _wrap_slice(key, length)
         IN  [err |-> s.err, kind |-> "slice", v |-> 0,
              start |-> s.start, stop |-> s.stop, step |-> s.step]

WrappedList_getitem(self, key) ==
    LET length == Len(self)
    IN  IF IsInt(key)
        THEN LET w == _wrap_int(IntB(key.v), length)
             IN  IF w.err # "none" THEN Raises(w.err, self)
                 ELSE list_getitem(self, w.v)
        ELSE IF IsSlice(key)
        THEN LET s == _wrap_slice(key, length)
             IN  IF s.err # "none" THEN Raises(s.err, self)
                 ELSE LET got == list_getslice(self, s)
                      IN  IF got.err # "none" THEN got
                          ELSE LET w == WrappedList_init(<<>>, TRUE, got.list)
                               IN  Returns(self, "list", 0, w.list)
        ELSE Raises("TypeError", self)

\* Variant of __setitem__ that hands an int key to the list unwrapped.
WrappedList_setitem_nowrap(self, key, value) ==
    IF IsInt(key) THEN list_setitem(self, key.v, value.v)
    ELSE LET w == _wrap_both(key, Len(self))
         IN  IF w.err # "none" THEN Raises(w.err, self) ELSE list_setslice(self, w, value)

WrappedList_setitem(self, key, value) ==
    LET w == _wrap_both(key, Len(self))
    IN  IF w.err # "none" THEN Raises(w.err, self)
        ELSE IF w.kind = "int" THEN list_setitem(self, w.v, value.v)
        ELSE list_setslice(self, w, value)

WrappedList_delitem(self, key) ==
    LET w == _wrap_both(key, Len(self))
    IN  IF w.err # "none" THEN Raises(w.err, self)
        ELSE IF w.kind = "int" THEN list_delitem(self, w.v)
        ELSE list_delslice(self, w)

\* self += other: extend; a TypeError of extend becomes NotImplemented, and
\* the += statement then raises TypeError (__add__ refuses a non-list too).
WrappedList_iadd(self, other) ==
    IF other.t = "seq" THEN Returns(self \o other.seq, "none", 0, <<>>)
    ELSE Raises("TypeError", self)

RECURSIVE Repeat(_, _)
Repeat(l, n) == IF n <= 0 THEN <<>> ELSE l \o Repeat(l, n - 1)

\* self *= other, other an int
WrappedList_imul(self, other) == Returns(Repeat(self, other), "none", 0, <<>>)

(***************************************************************************)
(* SquareFunction and SquareMethod (squarefunction.py).                    *)
(* A subscripted element is a plain value, the instance a method is bound  *)
(* to, or a slice; a slice whose start is a str is a keyword marker        *)
(* name:stop.                                                              *)
(***************************************************************************)
Value(v) == [type |-> "int", startT |-> "None", key |-> "", stop |-> v]
Marker(name, v) == [type |-> "slice", startT |-> "str", key |-> name, stop |-> v]
PlainSlice(v) == [type |-> "slice", startT |-> "int", key |-> "", stop |-> v]
Instance == [type |-> "object", startT |-> "None", key |-> "", stop |-> 0]

\* What stands between the brackets: a tuple of elements, or one element.
Tuple(elems) == [t |-> "tuple", elems |-> elems]
Single(x) == [t |-> "single", elems |-> <<x>>]

tuplefy(obj) == IF obj.t = "tuple" THEN obj.elems ELSE <<obj.elems[1]>>

\* Variant of _is_valid_kwarg that takes every slice for a keyword marker.
_is_valid_kwarg_anyslice(arg) == arg.type = "slice"

_is_valid_kwarg(arg) == arg.type = "slice" /\ arg.startT = "str"

\* The loop of _verify over reversed(pkargs), from element i down to the
\* first; the result is the exception raised.
RECURSIVE _verify_loop(_, _, _, _, _)
_verify_loop(pkargs, i, start_with_kwarg, posargs_starts, kwargs_keys) ==
    IF i = 0 THEN "none"
    ELSE LET arg == pkargs[i]
         IN  IF _is_valid_kwarg(arg)
             THEN IF ~(start_with_kwarg /\ ~posargs_starts) THEN "SyntaxError"
                  ELSE IF arg.key \in Range(kwargs_keys) THEN "SyntaxError"
                  ELSE _verify_loop(pkargs, i - 1, start_with_kwarg, posargs_starts,
                                    Append(kwargs_keys, arg.key))
             ELSE _verify_loop(pkargs, i - 1, start_with_kwarg, TRUE, kwargs_keys)

\* Variant of _verify that does not record the key of the last element.
_verify_forgetfirst(pkargs) ==
    IF pkargs = <<>> THEN "none"
    ELSE LET first == pkargs[Len(pkargs)]
         IN  IF _is_valid_kwarg(first)
             THEN _verify_loop(pkargs, Len(pkargs) - 1, TRUE, FALSE, <<>>)
             ELSE _verify_loop(pkargs, Len(pkargs) - 1, FALSE, FALSE, <<>>)

_verify(pkargs) ==
    IF pkargs = <<>> THEN "none"
    ELSE LET first == pkargs[Len(pkargs)]
         IN  IF _is_valid_kwarg(first)
             THEN _verify_loop(pkargs, Len(pkargs) - 1, TRUE, FALSE, <<first.key>>)
             ELSE _verify_loop(pkargs, Len(pkargs) - 1, FALSE, FALSE, <<>>)

\* kwargs[arg.start] = arg.stop
SetKey(kwargs, key, stop) ==
    [n \in (DOMAIN kwargs) \cup {key} |-> IF n = key THEN stop ELSE kwargs[n]]

RECURSIVE _split_loop(_, _, _, _)
_split_loop(pkargs, i, posargs, kwargs) ==
    IF i > Len(pkargs) THEN [posargs |-> posargs, kwargs |-> kwargs]
    ELSE IF _is_valid_kwarg(pkargs[i])
    THEN _split_loop(pkargs, i + 1, posargs, SetKey(kwargs, pkargs[i].key, pkargs[i].stop))
    ELSE _split_loop(pkargs, i + 1, Append(posargs, pkargs[i]), kwargs)

_split(pkargs) == _split_loop(pkargs, 1, <<>>, <<>>)

\* Outcome of an invocation: the exception raised and the calls made of the
\* wrapped function, each with its positional and keyword arguments.
SquareFunction_getitem(no_verify, poskwargs) ==
    LET pkargs == tuplefy(poskwargs)
        v == IF ~no_verify THEN _verify(pkargs) ELSE "none"
    IN  IF v # "none" THEN [err |-> v, calls |-> <<>>]
        ELSE [err |-> "none", calls |-> <<_split(pkargs)>>]

\* Invocation with parentheses
SquareFunction_call == [err |-> "SyntaxError", calls |-> <<>>]

\* Variant of SquareMethod.__getitem__ that leaves the bound object out.
SquareMethod_getitem_unbound(no_verify, self, poskwargs) ==
    SquareFunction_getitem(no_verify, Tuple(tuplefy(poskwargs)))

\* SquareMethod.__getitem__: the bound object is prepended.
SquareMethod_getitem(no_verify, self, poskwargs) ==
    SquareFunction_getitem(no_verify, Tuple(<<self>> \o tuplefy(poskwargs)))

\* SquareFunction.__get__ followed by the subscription: through the class
\* (instance is None) the SquareFunction itself is subscripted, through an
\* instance a SquareMethod bound to it.
SquareFunction_get(no_verify, hasInstance, poskwargs) ==
    IF ~hasInstance THEN SquareFunction_getitem(no_verify, poskwargs)
    ELSE SquareMethod_getitem(no_verify, Instance, poskwargs)

(***************************************************************************)
(* EasySubSuper (easysubsuper.py) and the classes of its driver.           *)
(***************************************************************************)
Classes == {"A", "B", "C", "D", "E", "F", "G"}

\* class A(metaclass=EasySubSuper), class B(A), ..., class G(E, F)
Bases ==
    [c \in Classes |->
        CASE c = "A" -> <<"object">>
          [] c = "B" -> <<"A">>
          [] c = "C" -> <<"A">>
          [] c = "D" -> <<"A">>
          [] c = "E" -> <<"B", "C">>
          [] c = "F" -> <<"C", "D">>
          [] c = "G" -> <<"E", "F">>]

\* The merge of the C3 linearization, by which Python computes __mro__: take
\* the first head that is in no tail, remove it from every list, repeat.
RECURSIVE Merge(_)
Merge(seqs) ==
    LET ne == SelectSeq(seqs, LAMBDA s : s # <<>>)
    IN  IF ne = <<>> THEN <<>>
        ELSE LET good(i) == \A j \in 1..Len(ne) : ne[i][1] \notin Range(Tail(ne[j]))
                 k == CHOOSE i \in 1..Len(ne) : good(i) /\ \A j \in 1..(i - 1) : ~good(j)
                 h == ne[k][1]
             IN  <<h>> \o Merge([i \in 1..Len(ne) |->
                                    IF ne[i][1] = h THEN Tail(ne[i]) ELSE ne[i]])

\* cls.__mro__
RECURSIVE Mro(_)
Mro(c) ==
    IF c = "object" THEN <<"object">>
    ELSE <<c>> \o Merge([i \in 1..Len(Bases[c]) |-> Mro(Bases[c][i])] \o <<Bases[c]>>)

\* Variant of __lt__ that searches the whole of __mro__.
EasySubSuper_lt_whole(cls, other) == other \in Range(Mro(cls))

EasySubSuper_lt(cls, other) == other \in Range(Tail(Mro(cls)))
EasySubSuper_le(cls, other) == other \in Range(Mro(cls))
EasySubSuper_gt(cls, other) == cls \in Range(Tail(Mro(other)))
EasySubSuper_ge(cls, other) == cls \in Range(Mro(other))

\* left <op> right as Python evaluates it: the method of the metaclass of
\* the left class; object has none (type gives NotImplemented), so the
\* reflected method of the right class answers; neither: TypeError.
Compare(o, left, right) ==
    IF left \in Classes
    THEN [err |-> "none",
          val |-> CASE o = "lt" -> EasySubSuper_lt(left, right)
                    [] o = "le" -> EasySubSuper_le(left, right)
                    [] o = "gt" -> EasySubSuper_gt(left, right)
                    [] o = "ge" -> EasySubSuper_ge(left, right)]
    ELSE IF right \in Classes
    THEN [err |-> "none",
          val |-> CASE o = "lt" -> EasySubSuper_gt(right, left)
                    [] o = "le" -> EasySubSuper_ge(right, left)
                    [] o = "gt" -> EasySubSuper_lt(right, left)
                    [] o = "ge" -> EasySubSuper_le(right, left)]
    ELSE [err |-> "TypeError", val |-> FALSE]

(***************************************************************************)
(* Inputs of the calls.                                                    *)
(***************************************************************************)
IntKeys == {IntKey(n) : n \in -((MaxWraps + 1) * MaxLen)..((MaxWraps + 1) * MaxLen - 1)}
SliceBounds == {IntB(n) : n \in -(MaxLen + 1)..(MaxLen + 1)} \cup {NoneB, StrB}
SliceSteps == {NoneB, IntB(-1), IntB(2), IntB(0)}
SliceKeys == {SliceKey(a, b, s) : a \in SliceBounds, b \in SliceBounds, s \in SliceSteps}
OtherKeys == {StrKey, NoneKey} \cup {RangeKey(0, b) : b \in 0..MaxLen}
Keys == IntKeys \cup SliceKeys \cup OtherKeys

AssignedSeqs == {<<>>, <<0>>, <<1, 2>>}
\* An int key is assigned an element; any other key an iterable or an element.
AssignedTo(key) ==
    IF IsInt(key) THEN {ItemV(x) : x \in Vals}
    ELSE {SeqV(q) : q \in AssignedSeqs} \cup {ItemV(0)}

Elements ==
    {Value(1), Value(2), PlainSlice(1)} \cup {Marker(n, v) : n \in {"c", "d"}, v \in {1, 2}}
Subscripts ==
    {Tuple(q) : q \in SeqsUpTo(Elements, MaxArgs)} \cup {Single(x) : x \in Elements}

NoOp == [name |-> "none", key |-> NoneKey, value |-> NoV]
NoCall == [how |-> "none", no_verify |-> FALSE, instance |-> FALSE, sub |-> Tuple(<<>>)]
NoCmp == [o |-> "none", left |-> "object", right |-> "object"]

(***************************************************************************)
(* The calls on a WrappedList.                                             *)
(***************************************************************************)
WLDone(name, key, value, out) ==
    /\ Len(out.items) <= MaxLen
    /\ pc' = "done"
    /\ before' = items
    /\ op' = [name |-> name, key |-> key, value |-> value]
    /\ res' = out
    /\ items' = out.items
    /\ UNCHANGED <<sfcall, sfres, cmp, cmpres>>

GetItem ==
    /\ pc = "idle"
    /\ \E key \in Keys : WLDone("getitem", key, NoV, WrappedList_getitem(items, key))

SetItem ==
    /\ pc = "idle"
    /\ \E key \in Keys : \E value \in AssignedTo(key) :
           WLDone("setitem", key, value, WrappedList_setitem(items, key, value))

DelItem ==
    /\ pc = "idle"
    /\ \E key \in Keys : WLDone("delitem", key, NoV, WrappedList_delitem(items, key))

IAdd ==
    /\ pc = "idle"
    /\ \E value \in {SeqV(q) : q \in AssignedSeqs} \cup {ItemV(0)} :
           WLDone("iadd", NoneKey, value, WrappedList_iadd(items, value))

IMul ==
    /\ pc = "idle"
    /\ \E n \in -1..MaxLen :
           /\ Len(items) * n <= MaxLen
           /\ WLDone("imul", NoneKey, ItemV(n), WrappedList_imul(items, n))

\* The caller drops the outcome of the call.
Return ==
    /\ pc = "done"
    /\ pc' = "idle"
    /\ before' = <<>>
    /\ op' = NoOp
    /\ res' = Returns(<<>>, "none", 0, <<>>)
    /\ sfcall' = NoCall
    /\ sfres' = [err |-> "none", calls |-> <<>>]
    /\ cmp' = NoCmp
    /\ cmpres' = [err |-> "none", val |-> FALSE]
    /\ UNCHANGED items

InitIdle ==
    /\ pc = "idle"
    /\ before = <<>>
    /\ op = NoOp
    /\ res = Returns(<<>>, "none", 0, <<>>)
    /\ sfcall = NoCall
    /\ sfres = [err |-> "none", calls |-> <<>>]
    /\ cmp = NoCmp
    /\ cmpres = [err |-> "none", val |-> FALSE]

\* WrappedList(*items) or WrappedList(iterable=...)
InitWL ==
    /\ InitIdle
    /\ \E l \in Lists : \E given \in BOOLEAN :
           items = WrappedList_init(IF given THEN <<>> ELSE l, given, l).items

NextWL == GetItem \/ SetItem \/ DelItem \/ IAdd \/ IMul \/ Return

SpecWL == InitWL /\ [][NextWL]_vars

(***************************************************************************)
(* The invocations of a SquareFunction.                                    *)
(***************************************************************************)
SFDone(how, no_verify, instance, sub, out) ==
    /\ pc' = "done"
    /\ sfcall' = [how |-> how, no_verify |-> no_verify, instance |-> instance, sub |-> sub]
    /\ sfres' = out
    /\ UNCHANGED <<items, before, op, res, cmp, cmpres>>

\* f[...]
Bracket ==
    /\ pc = "idle"
    /\ \E no_verify \in BOOLEAN : \E sub \in Subscripts :
           SFDone("bracket", no_verify, FALSE, sub, SquareFunction_getitem(no_verify, sub))

\* f(...)
Paren ==
    /\ pc = "idle"
    /\ \E no_verify \in BOOLEAN :
           SFDone("paren", no_verify, FALSE, Tuple(<<>>), SquareFunction_call)

\* obj.f[...] and Class.f[...]
Attribute ==
    /\ pc = "idle"
    /\ \E no_verify \in BOOLEAN : \E instance \in BOOLEAN : \E sub \in Subscripts :
           SFDone("attribute", no_verify, instance, sub,
                  SquareFunction_get(no_verify, instance, sub))

InitSF == InitIdle /\ items = <<>>

NextSF == Bracket \/ Paren \/ Attribute \/ Return

SpecSF == InitSF /\ [][NextSF]_vars

(***************************************************************************)
(* The comparisons of classes.                                             *)
(***************************************************************************)
CmpDone(o, left, right) ==
    /\ pc' = "done"
    /\ cmp' = [o |-> o, left |-> left, right |-> right]
    /\ cmpres' = Compare(o, left, right)
    /\ UNCHANGED <<items, before, op, res, sfcall, sfres>>

AllClasses == Classes \cup {"object"}

Lt ==
    /\ pc = "idle"
    /\ \E left \in AllClasses : \E right \in AllClasses : CmpDone("lt", left, right)

Le ==
    /\ pc = "idle"
    /\ \E left \in AllClasses : \E right \in AllClasses : CmpDone("le", left, right)

Gt ==
    /\ pc = "idle"
    /\ \E left \in AllClasses : \E right \in AllClasses : CmpDone("gt", left, right)

Ge ==
    /\ pc = "idle"
    /\ \E left \in AllClasses : \E right \in AllClasses : CmpDone("ge", left, right)

InitESS == InitIdle /\ items = <<>>

NextESS == Lt \/ Le \/ Gt \/ Ge \/ Return

SpecESS == InitESS /\ [][NextESS]_vars

(***************************************************************************)
(* Properties.                                                             *)
(***************************************************************************)
WLCall(names) == pc = "done" /\ op.name \in names
ItemCalls == {"getitem", "setitem", "delitem"}
IntBounds(key) == key.start.t = "int" /\ key.stop.t = "int"

\* C1: on a non-empty WrappedList w, reached by any sequence of the calls,
\* the read w[i + k*len(w)] succeeds and returns the element w[i] returns,
\* for every i with -len(w) <= i < len(w) and every integer k; that element
\* is the one at position (i + k*len(w)) mod len(w).
C1_WrapAroundRead ==
    (WLCall({"getitem"}) /\ IsInt(op.key) /\ before # <<>>) =>
        /\ res.err = "none"
        /\ res.kind = "item"
        /\ res.item = before[(op.key.v % Len(before)) + 1]
        /\ \A i \in -Len(before)..(Len(before) - 1) : \A k \in -MaxWraps..MaxWraps :
               op.key.v = i + k * Len(before) =>
                   LET direct == WrappedList_getitem(before, IntKey(i))
                   IN  direct.err = "none" /\ direct.item = res.item

C1_Witness ==
    /\ WLCall({"getitem"}) /\ IsInt(op.key)
    /\ Len(before) >= 2
    /\ op.key.v < -2 * Len(before) + 1
    /\ res.err = "none"
    /\ res.item = before[2]

\* In the subscripted tuple some positional value stands after a keyword
\* marker (a slice whose start is a str); two keyword markers carry one name.
KeywordMarker(a) == a.type = "slice" /\ a.startT = "str"
PositionalAfterKeyword(p) ==
    \E i \in 1..Len(p) : \E j \in 1..Len(p) :
        i < j /\ KeywordMarker(p[i]) /\ ~KeywordMarker(p[j])
RepeatedKeyword(p) ==
    \E i \in 1..Len(p) : \E j \in 1..Len(p) :
        i # j /\ KeywordMarker(p[i]) /\ KeywordMarker(p[j]) /\ p[i].key = p[j].key
WellFormed(p) == ~PositionalAfterKeyword(p) /\ ~RepeatedKeyword(p)

\* The call written by hand: the positional values in order, and each
\* keyword name bound to the stop value of its marker.
Positionals(p) == SelectSeq(p, LAMBDA a : ~KeywordMarker(a))
Names(p) == {p[i].key : i \in {j \in 1..Len(p) : KeywordMarker(p[j])}}
ManualCall(p, out) ==
    /\ out.err = "none"
    /\ Len(out.calls) = 1
    /\ out.calls[1].posargs = Positionals(p)
    /\ DOMAIN out.calls[1].kwargs = Names(p)
    /\ \A i \in 1..Len(p) : KeywordMarker(p[i]) => out.calls[1].kwargs[p[i].key] = p[i].stop

\* C2: with verification on, a bracket invocation whose argument tuple has a
\* positional value after a keyword marker, or two keyword markers of one
\* name, raises SyntaxError and does not invoke the wrapped function.
C2_MalformedRaises ==
    (/\ pc = "done" /\ sfcall.how = "bracket" /\ ~sfcall.no_verify
     /\ ~WellFormed(sfcall.sub.elems)) =>
        sfres.err = "SyntaxError" /\ sfres.calls = <<>>

C2_Witness ==
    /\ pc = "done" /\ sfcall.how = "bracket" /\ ~sfcall.no_verify
    /\ Len(sfcall.sub.elems) = MaxArgs
    /\ RepeatedKeyword(sfcall.sub.elems)
    /\ ~PositionalAfterKeyword(sfcall.sub.elems)
    /\ KeywordMarker(sfcall.sub.elems[MaxArgs])
    /\ sfcall.sub.elems[MaxArgs].key = sfcall.sub.elems[MaxArgs - 1].key
    /\ sfres.err = "SyntaxError"

\* C3: a bracket invocation whose argument tuple is positional values (plain
\* slices among them) followed by keyword markers of distinct names raises
\* nothing and invokes the wrapped function once, with the positional values
\* in order and each name bound to its marker's stop value.
C3_WellFormedForwards ==
    (pc = "done" /\ sfcall.how = "bracket" /\ WellFormed(sfcall.sub.elems)) =>
        ManualCall(sfcall.sub.elems, sfres)

C3_Witness ==
    /\ pc = "done" /\ sfcall.how = "bracket" /\ ~sfcall.no_verify
    /\ Len(sfcall.sub.elems) = MaxArgs
    /\ sfcall.sub.elems[1] = PlainSlice(1)
    /\ KeywordMarker(sfcall.sub.elems[MaxArgs - 1])
    /\ KeywordMarker(sfcall.sub.elems[MaxArgs])
    /\ sfres.err = "none"
    /\ Len(sfres.calls) = 1

\* C4: for classes a, b of the hierarchy A..G: a < b iff b is in the MRO of
\* a and is not a; a <= b iff a < b or a is b; a > b iff b < a; a >= b iff
\* b <= a.
InMroBeyondSelf(a, b) == b \in (Range(Mro(a)) \ {a})
C4_ComparisonsFollowMro ==
    (pc = "done" /\ cmp.o # "none" /\ cmp.left \in Classes /\ cmp.right \in Classes) =>
        /\ cmpres.err = "none"
        /\ cmp.o = "lt" => (cmpres.val <=> InMroBeyondSelf(cmp.left, cmp.right))
        /\ cmp.o = "le" =>
               (cmpres.val <=> (InMroBeyondSelf(cmp.left, cmp.right) \/ cmp.left = cmp.right))
        /\ cmp.o = "gt" => (cmpres.val <=> InMroBeyondSelf(cmp.right, cmp.left))
        /\ cmp.o = "ge" =>
               (cmpres.val <=> (InMroBeyondSelf(cmp.right, cmp.left) \/ cmp.left = cmp.right))

C4_Witness ==
    /\ pc = "done" /\ cmp.o = "lt" /\ cmp.left = "G" /\ cmp.right = "D"
    /\ cmpres.val

\* C5: a key that is neither an int nor a slice raises TypeError on read,
\* assignment and deletion alike, and the list is left as it was.
C5_InvalidKeyTypeError ==
    (WLCall(ItemCalls) /\ ~IsInt(op.key) /\ ~IsSlice(op.key)) =>
        res.err = "TypeError" /\ items = before

\* C6: on a non-empty WrappedList of length n, w[k] = v replaces the element
\* at position k mod n and nothing else, and del w[k] removes the element at
\* position k mod n and nothing else: what the built-in list does for the
\* index k mod n.
C6_WrapAroundWrite ==
    (WLCall({"setitem", "delitem"}) /\ IsInt(op.key) /\ before # <<>>) =>
        LET n == Len(before)
            p == (op.key.v % n) + 1
        IN  /\ res.err = "none"
            /\ op.name = "setitem" =>
                   /\ Len(items) = n
                   /\ items[p] = op.value.v
                   /\ \A j \in (1..n) \ {p} : items[j] = before[j]
                   /\ items = list_setitem(before, op.key.v % n, op.value.v).items
            /\ op.name = "delitem" =>
                   /\ Len(items) = n - 1
                   /\ \A j \in 1..(p - 1) : items[j] = before[j]
                   /\ \A j \in p..(n - 1) : items[j] = before[j + 1]
                   /\ items = list_delitem(before, op.key.v % n).items

C6_Witness ==
    /\ WLCall({"setitem"}) /\ IsInt(op.key)
    /\ Len(before) >= 2
    /\ op.key.v >= 2 * Len(before)
    /\ res.err = "none"
    /\ items # before

\* C7: obj.method[args] invokes the wrapped function once with obj first,
\* then the subscripted positional values in order, and the subscripted
\* keyword bindings; the tuple with obj in front is validated as in a plain
\* bracket invocation.
C7_BoundInvocation ==
    (pc = "done" /\ sfcall.how = "attribute" /\ sfcall.instance) =>
        LET p == sfcall.sub.elems
        IN  /\ WellFormed(p) => ManualCall(<<Instance>> \o p, sfres)
            /\ (~sfcall.no_verify /\ ~WellFormed(p)) =>
                   sfres.err = "SyntaxError" /\ sfres.calls = <<>>
            /\ sfres.err = "none" =>
                   /\ Len(sfres.calls) = 1
                   /\ sfres.calls[1].posargs = <<Instance>> \o Positionals(p)

C7_Witness ==
    /\ pc = "done" /\ sfcall.how = "attribute" /\ sfcall.instance /\ ~sfcall.no_verify
    /\ sfcall.sub = Tuple(<<Value(1), Marker("d", 2)>>)
    /\ sfres.err = "none"
    /\ sfres.calls[1].posargs = <<Instance, Value(1)>>

\* C8 as stated: on a non-empty WrappedList w, for integer bounds with
\* 0 <= start <= stop <= len(w) and no step, w[start:stop] holds the
\* elements of the built-in slice [start:stop].
InOrderSliceRead ==
    /\ WLCall({"getitem"}) /\ IsSlice(op.key) /\ IntBounds(op.key)
    /\ op.key.step = NoneB
    /\ before # <<>>
    /\ 0 <= op.key.start.v /\ op.key.start.v <= op.key.stop.v
C8_SliceReadUpToLen ==
    (InOrderSliceRead /\ op.key.stop.v <= Len(before)) =>
        /\ res.err = "none"
        /\ res.kind = "list"
        /\ res.list = SubSeq(before, op.key.start.v + 1, op.key.stop.v)

\* C8 amended: the same for 0 <= start <= stop < len(w); a stop equal to
\* len(w) is wrapped to 0 and the read returns an empty WrappedList.
C8_SliceReadBelowLen ==
    /\ (InOrderSliceRead /\ op.key.stop.v < Len(before)) =>
           /\ res.err = "none"
           /\ res.kind = "list"
           /\ res.list = SubSeq(before, op.key.start.v + 1, op.key.stop.v)
    /\ (InOrderSliceRead /\ op.key.stop.v = Len(before)) =>
           res.err = "none" /\ res.kind = "list" /\ res.list = <<>>

C8_Witness ==
    /\ InOrderSliceRead
    /\ op.key.start.v = 1 /\ op.key.stop.v = 2 /\ Len(before) = 3
    /\ res.list = <<before[2]>>

\* C9: on an empty WrappedList, read, assignment and deletion with an int
\* key raise ZeroDivisionError, and the list stays empty.
C9_EmptyRaisesZeroDivision ==
    (WLCall(ItemCalls) /\ IsInt(op.key) /\ before = <<>>) =>
        res.err = "ZeroDivisionError" /\ items = <<>>

C9_Witness ==
    /\ WLCall({"setitem"}) /\ IsInt(op.key) /\ op.key.v < 0
    /\ before = <<>>
    /\ res.err = "ZeroDivisionError"

\* C10: on a non-empty WrappedList, a slice key whose start or stop is None
\* raises TypeError on read, assignment and deletion, and the list is left
\* as it was; a slice is accepted only with both bounds ints.
C10_OmittedBoundRaises ==
    (WLCall(ItemCalls) /\ IsSlice(op.key) /\ before # <<>>) =>
        /\ (op.key.start = NoneB \/ op.key.stop = NoneB) =>
               res.err = "TypeError" /\ items = before
        /\ res.err = "none" => IntBounds(op.key)

C10_Witness ==
    /\ WLCall({"delitem"}) /\ IsSlice(op.key)
    /\ op.key.start = IntB(1) /\ op.key.stop = NoneB
    /\ Len(before) = 2
    /\ res.err = "TypeError"
    /\ items = before

====
